---- MODULE Spec2Model ----
(***************************************************************************)
(* gh-issues-bot: the assignment-request lifecycle of src/bot.rs, with the *)
(* file store of src/persistence.rs and the eligibility filter of          *)
(* src/github.rs.                                                          *)
(*                                                                         *)
(* One action per suspension point of the bot: the handler code between    *)
(* two awaits runs without interleaving, so it is one step.  The clock is  *)
(* read at that granularity.  A crash may fall between any two steps; the  *)
(* next run starts from Bot::new and the two files.                        *)
(***************************************************************************)
EXTENDS Integers, Sequences, FiniteSets, TLC

\* ------------------------------------------------------------------ bounds
MaxTime == 3
MaxRestarts == 1
\* longest issue list given to the filter on its own
MaxLen == 3

\* ------------------------------------------------------- configuration
\* Config::cooldown_hours, in clock units of the model.
Cooldown == 2
\* the literal floor of poll_repositories
RateLimitFloor == 50

\* title_regex: None, or a pattern.  A pattern either compiles (and then
\* matches a set of titles) or does not compile.
NoRegex == [tag |-> "None"]
Pattern(valid, titles) == [tag |-> "Some", valid |-> valid, matches |-> titles]

\* Config::repositories, in configured order.
Repositories ==
    << [owner |-> "o1", repo |-> "r1", labels |-> <<"help">>,
        exclude_labels |-> <<"blocked">>, title_regex |-> NoRegex],
       [owner |-> "o2", repo |-> "r2", labels |-> << >>,
        exclude_labels |-> << >>, title_regex |-> Pattern(TRUE, {"fix"})] >>

\* ------------------------------------------------------- remote issues
NoAssignee == [tag |-> "None"]
SomeAssignee(u) == [tag |-> "Some", login |-> u]

MkIssue(id, number, title, url, created, assignee, assignees, labels) ==
    [id |-> id, number |-> number, title |-> title, html_url |-> url,
     created_at |-> created, assignee |-> assignee, assignees |-> assignees,
     labels |-> labels]

\* What the issue-list endpoint can hold for each repository, in the order
\* the endpoint returns it (newest first).  Issue numbers are per repository,
\* identifiers are global.
RemoteIssues ==
    << << MkIssue(1, 11, "fix a", "u/o1/r1/11", 2, NoAssignee, << >>, <<"help">>),
          MkIssue(2, 12, "fix b", "u/o1/r1/12", 1, NoAssignee, << >>, <<"help", "easy">>),
          MkIssue(3, 13, "fix c", "u/o1/r1/13", 0, NoAssignee, << >>, <<"help", "blocked">>) >>,
       << MkIssue(4, 11, "fix", "u/o2/r2/11", 1, NoAssignee, << >>, << >>),
          MkIssue(5, 12, "fix", "u/o2/r2/12", 0, SomeAssignee("x"), <<"x">>, << >>) >> >>

IssueIds == {1, 2, 3, 4, 5}

\* the rate-limit headroom values the remote can answer
RateValues == {49, 50}

\* ------------------------------------------------------- helpers
Range(s) == {s[i] : i \in 1..Len(s)}

\* the subsequences of s (an endpoint answers with the issues open now)
RECURSIVE SubSeqs(_)
SubSeqs(s) ==
    IF s = << >> THEN {<< >>}
    ELSE LET rest == SubSeqs(Tail(s))
         IN rest \cup {<<Head(s)>> \o t : t \in rest}

\* Option<ActiveIssue>
NoActive == [tag |-> "None"]

\* ------------------------------------------------------- eligibility filter
LabelNames(issue) == Range(issue.labels)

\* regex::Regex::new(regex_str) is Ok
Compiles(pattern) == pattern.valid
\* regex.is_match(&issue.title)
IsMatch(pattern, title) == title \in pattern.matches

\* variant: only the single assignee is looked at, not the assignee list
EligibleIgnoresAssigneeList(issue, repo) ==
    IF issue.assignee.tag = "Some" THEN FALSE
    ELSE IF \E i \in 1..Len(repo.labels) : repo.labels[i] \notin LabelNames(issue)
         THEN FALSE
    ELSE IF \E i \in 1..Len(repo.exclude_labels) :
                repo.exclude_labels[i] \in LabelNames(issue)
         THEN FALSE
    ELSE IF repo.title_regex.tag = "Some" /\ Compiles(repo.title_regex)
         THEN IsMatch(repo.title_regex, issue.title)
    ELSE TRUE

\* variant: a pattern that does not compile rejects every issue
EligibleRejectsBadPattern(issue, repo) ==
    IF issue.assignee.tag = "Some" \/ issue.assignees # << >> THEN FALSE
    ELSE IF \E i \in 1..Len(repo.labels) : repo.labels[i] \notin LabelNames(issue)
         THEN FALSE
    ELSE IF \E i \in 1..Len(repo.exclude_labels) :
                repo.exclude_labels[i] \in LabelNames(issue)
         THEN FALSE
    ELSE IF repo.title_regex.tag = "Some"
         THEN Compiles(repo.title_regex) /\ IsMatch(repo.title_regex, issue.title)
    ELSE TRUE

\* the closure given to filter() in get_open_issues
Eligible(issue, repo) ==
    IF issue.assignee.tag = "Some" \/ issue.assignees # << >> THEN FALSE
    ELSE IF repo.labels # << >>
            /\ \E i \in 1..Len(repo.labels) : repo.labels[i] \notin LabelNames(issue)
         THEN FALSE
    ELSE IF repo.exclude_labels # << >>
            /\ \E i \in 1..Len(repo.exclude_labels) :
                   repo.exclude_labels[i] \in LabelNames(issue)
         THEN FALSE
    ELSE IF repo.title_regex.tag = "Some" /\ Compiles(repo.title_regex)
         THEN IsMatch(repo.title_regex, issue.title)
    ELSE TRUE

\* issues.into_iter().filter(..).collect(): order kept
RECURSIVE FilterIssues(_, _)
FilterIssues(issues, repo) ==
    IF issues = << >> THEN << >>
    ELSE IF Eligible(Head(issues), repo)
         THEN <<Head(issues)>> \o FilterIssues(Tail(issues), repo)
         ELSE FilterIssues(Tail(issues), repo)

\* ------------------------------------------------------- process_repository
\* variant: the comparison reversed, newest first
RECURSIVE InsertNewestFirst(_, _)
InsertNewestFirst(issue, sorted) ==
    IF sorted = << >> THEN <<issue>>
    ELSE IF Head(sorted).created_at >= issue.created_at
         THEN <<Head(sorted)>> \o InsertNewestFirst(issue, Tail(sorted))
         ELSE <<issue>> \o sorted

\* sort_by(|a, b| a.created_at.cmp(&b.created_at)): a stable sort
RECURSIVE InsertByCreated(_, _)
InsertByCreated(issue, sorted) ==
    IF sorted = << >> THEN <<issue>>
    ELSE IF Head(sorted).created_at <= issue.created_at
         THEN <<Head(sorted)>> \o InsertByCreated(issue, Tail(sorted))
         ELSE <<issue>> \o sorted

RECURSIVE SortByCreated(_)
SortByCreated(issues) ==
    IF issues = << >> THEN << >>
    ELSE InsertByCreated(issues[Len(issues)],
                         SortByCreated(SubSeq(issues, 1, Len(issues) - 1)))

\* variant: the loop head does not skip
SkipNothing(issues, from, done) == from

\* the loop head, `if processed.contains(&issue.id) { continue; }`: the first
\* position from `from` on whose issue is not in `done`, Len + 1 when the loop
\* runs off the list
RECURSIVE SkipProcessed(_, _, _)
SkipProcessed(issues, from, done) ==
    IF from > Len(issues) THEN from
    ELSE IF issues[from].id \in done THEN SkipProcessed(issues, from + 1, done)
    ELSE from

\* variant: a failed comment is tried again on the same issue
RetrySameIssue(issues, pos, done) == pos

\* `warn!("Failed to request assignment: {}", e); continue;`: where the loop
\* stands after a failed comment on the issue at `pos`
AfterFailedPost(issues, pos, done) == SkipProcessed(issues, pos + 1, done)

\* variant: the id is recorded whether or not the comment was accepted
RecordedBeforePost(done, id, ok) == done \cup {id}
\* variant: the id is never inserted in memory
NeverRecorded(done, id, ok) == done

\* processed_issues after request_assignment returned for issue `id`: the
\* insert of mark_issue_as_active is reached only when the comment was accepted
ProcessedAfterPost(done, id, ok) == IF ok THEN done \cup {id} ELSE done

\* ------------------------------------------------------- mark_issue_as_active
\* variant: the expiry is the posting time itself, the cooldown is not added
MakeActiveNoCooldown(owner, repo, issue, t) ==
    [tag |-> "Some", repo_owner |-> owner, repo_name |-> repo,
     issue_number |-> issue.number, issue_url |-> issue.html_url,
     requested_at |-> t, timeout |-> t]

\* the ActiveIssue built from the repository, the issue and the clock
MakeActive(owner, repo, issue, t) ==
    [tag |-> "Some", repo_owner |-> owner, repo_name |-> repo,
     issue_number |-> issue.number, issue_url |-> issue.html_url,
     requested_at |-> t, timeout |-> t + Cooldown]

\* ------------------------------------------------------- poll_repositories
\* variant: still waiting at the instant of expiry (<= for <)
StillWaitingAtExpiry(active, t) == active.tag = "Some" /\ t <= active.timeout
\* variant: the comparison the wrong way round
StillWaitingInverted(active, t) == active.tag = "Some" /\ t > active.timeout
\* variant: the floor one too low
LowHeadroomOffByOne(remaining) == remaining < RateLimitFloor - 1

\* active_issue after the pending check: the block only reads it and logs
AfterPendingCheck(active, t) == active

\* variant: the repository loop stops at the first repository without a post
BreakLoop == "done"

\* `if let Some(ref active) = *active_lock { if Utc::now() < active.timeout`
StillWaiting(active, t) == active.tag = "Some" /\ t < active.timeout

\* `if remaining < 50`
LowHeadroom(remaining) == remaining < RateLimitFloor

\* ------------------------------------------------------- state
VARIABLES
    active_issue,       \* Bot::active_issue, Option<ActiveIssue>
    processed_issues,   \* Bot::processed_issues, a set of issue ids
    active_file,        \* active_issue.json (NoActive: no file)
    processed_file,     \* processed_issues.json (no file reads as the empty set)
    now,                \* Utc::now()
    pc,                 \* where the process is suspended
    repo_idx,           \* position of `for repo in &self.config.repositories`
    sorted_issues,      \* process_repository: the sorted list
    issue_pos,          \* process_repository: position of `for issue in sorted_issues`
    processed,          \* process_repository: its copy of the processed set
    restarts,           \* how many times the process was started again
    posted,             \* history: comments the remote accepted, per issue id
    last_expiry,        \* history: latest expiry among the accepted comments
    attempt,            \* history: the latest comment_on_issue call of the cycle
    cyc,                \* history: the poll_repositories call under way
    ever_mem,           \* history: ids processed_issues held in a started run
    ever_file,          \* history: ids processed_issues.json held
    run_posts           \* history: comments accepted in this run, per issue id

    \* one repository scan taken on its own: the eligibility filter, the sort
    \* and the loop head applied to a given list, rule and processed set
VARIABLES
    f_pc,               \* "off", or how far the scan has got
    f_rule,             \* the Repository rule
    f_list,             \* the issues as the endpoint returned them
    f_done,             \* the processed set
    f_filtered,         \* get_open_issues' result
    f_sorted,           \* sorted_issues
    f_pos               \* the position the loop first stands on

fvars == <<f_pc, f_rule, f_list, f_done, f_filtered, f_sorted, f_pos>>

vars == <<active_issue, processed_issues, active_file, processed_file, now, pc,
          repo_idx, sorted_issues, issue_pos, processed, restarts, posted, last_expiry,
          attempt, cyc, ever_mem, ever_file, run_posts>>

store == <<active_file, processed_file, ever_file>>
memory == <<active_issue, processed_issues, ever_mem>>
locals == <<repo_idx, sorted_issues, issue_pos, processed>>
history == <<posted, last_expiry, attempt, run_posts>>

NoAttempt == [tag |-> "None"]

\* the record kept of one cycle: the state it started from and what it did
CycleFrom(a, p, af, pf, t) ==
    [startActive |-> a, startProcessed |-> p, startActiveFile |-> af,
     startProcessedFile |-> pf, startNow |-> t,
     pending |-> (a.tag = "Some" /\ t < a.timeout),
     rate |-> 0, headroom |-> -1, lists |-> 0, attempts |-> 0, posts |-> 0,
     listErrs |-> 0, saveErrs |-> 0, tried |-> << >>,
     result |-> "running"]

NoCycle == [CycleFrom(NoActive, {}, NoActive, {}, 0) EXCEPT !.result = "none"]

Max(a, b) == IF a >= b THEN a ELSE b

\* Bot::new, before initialize: a first start on an empty data directory
BotNew ==
    /\ active_issue = NoActive
    /\ processed_issues = {}
    /\ active_file = NoActive
    /\ processed_file = {}
    /\ now = 0
    /\ pc = "boot"
    /\ repo_idx = 0
    /\ sorted_issues = << >>
    /\ issue_pos = 0
    /\ processed = {}
    /\ restarts = 0
    /\ posted = [i \in IssueIds |-> 0]
    /\ last_expiry = 0
    /\ attempt = NoAttempt
    /\ cyc = NoCycle
    /\ ever_mem = {}
    /\ ever_file = {}
    /\ run_posts = [i \in IssueIds |-> 0]

allvars == <<vars, fvars>>

\* the bot: the scan-on-its-own variables are not in use
Init ==
    /\ BotNew
    /\ f_pc = "off"
    /\ f_rule = Repositories[1]
    /\ f_list = << >>
    /\ f_done = {}
    /\ f_filtered = << >>
    /\ f_sorted = << >>
    /\ f_pos = 0

\* Bot::initialize: a load that fails leaves the field as Bot::new made it
Initialize ==
    /\ pc = "boot"
    /\ UNCHANGED fvars
    /\ \E okActive \in BOOLEAN, okProcessed \in BOOLEAN :
         /\ active_issue' = IF okActive THEN active_file ELSE active_issue
         /\ processed_issues' =
                IF okProcessed THEN processed_file ELSE processed_issues
    /\ ever_mem' = ever_mem \cup processed_issues'
    /\ pc' = "ready"
    /\ UNCHANGED <<store, now, locals, restarts, history, cyc>>

\* the process dies and is started again: Bot::new on the same data directory
Crash ==
    /\ pc \notin {"boot", "done"}
    /\ UNCHANGED fvars
    /\ restarts < MaxRestarts
    /\ restarts' = restarts + 1
    /\ active_issue' = NoActive
    /\ processed_issues' = {}
    /\ pc' = "boot"
    /\ repo_idx' = 0
    /\ sorted_issues' = << >>
    /\ issue_pos' = 0
    /\ processed' = {}
    /\ attempt' = NoAttempt
    /\ cyc' = NoCycle
    /\ run_posts' = [i \in IssueIds |-> 0]
    /\ UNCHANGED <<store, now, ever_mem, posted, last_expiry>>

\* time passes while the process sleeps or awaits ("done" is no suspension
\* point: the loop goes straight on to its sleep)
Tick ==
    /\ now < MaxTime
    /\ UNCHANGED fvars
    /\ pc # "done"
    /\ now' = now + 1
    /\ UNCHANGED <<memory, store, pc, locals, restarts, history, cyc>>

\* Bot::start's loop body up to the first await of poll_repositories
StartCycle ==
    /\ pc \in {"ready", "sleep"}
    /\ UNCHANGED fvars
    /\ active_issue' = AfterPendingCheck(active_issue, now)
    /\ LET c == CycleFrom(active_issue, processed_issues, active_file,
                          processed_file, now)
       IN IF StillWaiting(active_issue, now)
          THEN /\ pc' = "done"
               /\ cyc' = [c EXCEPT !.result = "waiting"]
          ELSE /\ pc' = "rate"
               /\ cyc' = c
    /\ UNCHANGED <<processed_issues, ever_mem, store, now, locals, restarts,
                   history>>

\* get_rate_limit().await? and the floor check
QueryRateLimit ==
    /\ pc = "rate"
    /\ UNCHANGED fvars
    /\ \/ /\ pc' = "done"
          /\ cyc' = [cyc EXCEPT !.rate = @ + 1, !.result = "rate_err"]
          /\ UNCHANGED repo_idx
       \/ \E remaining \in RateValues :
            IF LowHeadroom(remaining)
            THEN /\ pc' = "done"
                 /\ cyc' = [cyc EXCEPT !.rate = @ + 1, !.headroom = remaining,
                                       !.result = "throttled"]
                 /\ UNCHANGED repo_idx
            ELSE /\ pc' = "scan"
                 /\ repo_idx' = 1
                 /\ cyc' = [cyc EXCEPT !.rate = @ + 1, !.headroom = remaining]
    /\ UNCHANGED <<memory, store, now, sorted_issues, issue_pos, processed,
                   restarts, history>>

\* the repository loop of poll_repositories after process_repository returned
\* Ok(false) or Err: on to the next repository, or the end of the cycle
\* variant: the repository loop does not advance
StayOnRepository == repo_idx

NextPc == IF repo_idx < Len(Repositories) THEN "scan" ELSE "done"
NextIdx == IF repo_idx < Len(Repositories) THEN repo_idx + 1 ELSE 0
NextResult == IF repo_idx < Len(Repositories) THEN "running" ELSE "exhausted"

\* process_repository up to its first comment: get_open_issues().await?, the
\* sort, the copy of the processed set, and the loop head
ListIssues ==
    /\ pc = "scan"
    /\ UNCHANGED fvars
    /\ \/ /\ pc' = NextPc
          /\ repo_idx' = NextIdx
          /\ cyc' = [cyc EXCEPT !.lists = @ + 1, !.listErrs = @ + 1,
                                !.result = NextResult]
          /\ UNCHANGED <<sorted_issues, issue_pos, processed>>
       \/ \E open \in SubSeqs(RemoteIssues[repo_idx]) :
            LET issues == FilterIssues(open, Repositories[repo_idx])
                sorted == SortByCreated(issues)
                first == SkipProcessed(sorted, 1, processed_issues)
            IN IF first > Len(sorted)
               THEN /\ pc' = NextPc
                    /\ repo_idx' = NextIdx
                    /\ cyc' = [cyc EXCEPT !.lists = @ + 1, !.result = NextResult]
                    /\ UNCHANGED <<sorted_issues, issue_pos, processed>>
               ELSE /\ pc' = "post"
                    /\ sorted_issues' = sorted
                    /\ issue_pos' = first
                    /\ processed' = processed_issues
                    /\ cyc' = [cyc EXCEPT !.lists = @ + 1]
                    /\ UNCHANGED repo_idx
    /\ UNCHANGED <<memory, store, now, restarts, history>>

\* request_assignment for the issue the loop stands on; on success the
\* in-memory half of mark_issue_as_active, up to its first await
PostComment ==
    /\ pc = "post"
    /\ UNCHANGED fvars
    /\ LET issue == sorted_issues[issue_pos]
           repo == Repositories[repo_idx]
       IN \/ /\ attempt' = [tag |-> "Some", id |-> issue.id, repo |-> repo_idx,
                            ok |-> FALSE, at |-> now, skip |-> processed]
             /\ processed_issues' = ProcessedAfterPost(processed_issues, issue.id, FALSE)
             /\ ever_mem' = ever_mem \cup processed_issues'
             /\ LET next == AfterFailedPost(sorted_issues, issue_pos, processed)
                IN IF next > Len(sorted_issues)
                   THEN /\ pc' = NextPc
                        /\ repo_idx' = NextIdx
                        /\ sorted_issues' = << >>
                        /\ issue_pos' = 0
                        /\ processed' = {}
                        /\ cyc' = [cyc EXCEPT !.attempts = @ + 1,
                                              !.tried = << >>,
                                              !.result = NextResult]
                   ELSE /\ issue_pos' = next
                        /\ cyc' = [cyc EXCEPT !.attempts = @ + 1,
                                              !.tried = Append(@, issue.id)]
                        /\ UNCHANGED <<pc, repo_idx, sorted_issues, processed>>
             /\ UNCHANGED <<active_issue, posted, last_expiry, run_posts>>
          \/ /\ attempt' = [tag |-> "Some", id |-> issue.id, repo |-> repo_idx,
                            ok |-> TRUE, at |-> now, skip |-> processed]
             /\ posted' = [posted EXCEPT ![issue.id] = @ + 1]
             /\ run_posts' = [run_posts EXCEPT ![issue.id] = @ + 1]
             /\ last_expiry' = Max(last_expiry, now + Cooldown)
             /\ active_issue' = MakeActive(repo.owner, repo.repo, issue, now)
             /\ processed_issues' = ProcessedAfterPost(processed_issues, issue.id, TRUE)
             /\ ever_mem' = ever_mem \cup processed_issues'
             /\ pc' = "save_active"
             /\ sorted_issues' = << >>
             /\ issue_pos' = 0
             /\ processed' = {}
             /\ cyc' = [cyc EXCEPT !.attempts = @ + 1, !.posts = @ + 1,
                                   !.tried = << >>]
             /\ UNCHANGED repo_idx
    /\ UNCHANGED <<store, now, restarts>>

\* save_active_issue(&active).await?
SaveActiveIssue ==
    /\ pc = "save_active"
    /\ UNCHANGED fvars
    /\ \/ /\ active_file' = active_issue
          /\ pc' = "save_processed"
          /\ UNCHANGED <<repo_idx, cyc>>
       \/ /\ pc' = NextPc
          /\ repo_idx' = NextIdx
          /\ cyc' = [cyc EXCEPT !.saveErrs = @ + 1, !.result = NextResult]
          /\ UNCHANGED active_file
    /\ UNCHANGED <<memory, processed_file, ever_file, now, sorted_issues,
                   issue_pos, processed, restarts, history>>

\* save_processed_issues(&processed_issues).await?, then Ok(true)
SaveProcessedIssues ==
    /\ pc = "save_processed"
    /\ UNCHANGED fvars
    /\ \/ /\ processed_file' = processed_issues
          /\ ever_file' = ever_file \cup processed_issues
          /\ pc' = "done"
          /\ repo_idx' = 0
          /\ cyc' = [cyc EXCEPT !.result = "posted"]
       \/ /\ pc' = NextPc
          /\ repo_idx' = NextIdx
          /\ cyc' = [cyc EXCEPT !.saveErrs = @ + 1, !.result = NextResult]
          /\ UNCHANGED <<processed_file, ever_file>>
    /\ UNCHANGED <<memory, active_file, now, sorted_issues, issue_pos,
                   processed, restarts, history>>

\* variant: Bot::start propagates the Err of poll_repositories and returns
ReturnOnErr(result) == IF result = "rate_err" THEN "stopped" ELSE "sleep"

\* `if let Err(e) = self.poll_repositories().await { warn!(..) }` inside `loop`:
\* whatever the cycle returned, the loop goes back to interval.tick()
LoopAfter(result) == "sleep"

\* poll_repositories has returned to the loop of Bot::start, which logs an Err
\* and goes back to interval.tick(); the record of the cycle ends here
EndCycle ==
    /\ pc = "done"
    /\ UNCHANGED fvars
    /\ pc' = LoopAfter(cyc.result)
    /\ cyc' = NoCycle
    /\ attempt' = NoAttempt
    /\ UNCHANGED <<memory, store, now, locals, restarts, posted, last_expiry,
                   run_posts>>

Next ==
    \/ Initialize
    \/ Crash
    \/ Tick
    \/ StartCycle
    \/ QueryRateLimit
    \/ ListIssues
    \/ PostComment
    \/ SaveActiveIssue
    \/ SaveProcessedIssues
    \/ EndCycle

Spec == Init /\ [][Next]_allvars

\* ------------------------------------------------------- one scan on its own
\* issue snapshots an endpoint can return: assigned and unassigned, with and
\* without labels, two titles, creation times with ties
SampleIssues ==
    { MkIssue(21, 1, "doc", "u/1", 2, NoAssignee, << >>, <<"help">>),
      MkIssue(22, 2, "fix", "u/2", 1, NoAssignee, << >>, <<"help", "easy">>),
      MkIssue(23, 3, "fix", "u/3", 0, NoAssignee, << >>, <<"help", "blocked">>),
      MkIssue(24, 4, "fix", "u/4", 0, SomeAssignee("x"), <<"x">>, <<"help">>),
      MkIssue(25, 5, "fix", "u/5", 0, NoAssignee, <<"x">>, <<"help", "easy">>),
      MkIssue(26, 6, "fix", "u/6", 1, NoAssignee, << >>, << >>) }

\* repository rules: required labels, excluded labels, and no title pattern,
\* one that compiles, one that does not
SampleRules ==
    { [owner |-> "o", repo |-> "r", labels |-> l, exclude_labels |-> e,
       title_regex |-> p] :
        l \in {<< >>, <<"help">>, <<"help", "easy">>},
        e \in {<< >>, <<"blocked">>},
        p \in {NoRegex, Pattern(TRUE, {"fix"}), Pattern(FALSE, {})} }

SampleProcessed == SUBSET {22, 26}

\* the lists of at most MaxLen different sample issues, in every order
SampleLists ==
    { l \in UNION {[1..k -> SampleIssues] : k \in 0..MaxLen} :
        \A i, j \in 1..Len(l) : i # j => l[i] # l[j] }

FilterInit ==
    /\ BotNew
    /\ f_pc = "listed"
    /\ f_rule \in SampleRules
    /\ f_list \in SampleLists
    /\ f_done \in SampleProcessed
    /\ f_filtered = << >>
    /\ f_sorted = << >>
    /\ f_pos = 0

\* get_open_issues: the filter over the response
ApplyFilter ==
    /\ f_pc = "listed"
    /\ f_filtered' = FilterIssues(f_list, f_rule)
    /\ f_pc' = "filtered"
    /\ UNCHANGED <<vars, f_rule, f_list, f_done, f_sorted, f_pos>>

\* process_repository: the sort
ApplySort ==
    /\ f_pc = "filtered"
    /\ f_sorted' = SortByCreated(f_filtered)
    /\ f_pc' = "sorted"
    /\ UNCHANGED <<vars, f_rule, f_list, f_done, f_filtered, f_pos>>

\* process_repository: the loop runs to the first issue it comments on
ChooseIssue ==
    /\ f_pc = "sorted"
    /\ f_pos' = SkipProcessed(f_sorted, 1, f_done)
    /\ f_pc' = "chosen"
    /\ UNCHANGED <<vars, f_rule, f_list, f_done, f_filtered, f_sorted>>

FilterNext ==
    \/ ApplyFilter
    \/ ApplySort
    \/ ChooseIssue

FilterSpec == FilterInit /\ [][FilterNext]_allvars

\* ------------------------------------------------------- reading the state
AllRemoteIssues == UNION {Range(RemoteIssues[r]) : r \in 1..Len(RemoteIssues)}
IssueById(id) == CHOOSE x \in AllRemoteIssues : x.id = id

\* the remote issue an ActiveIssue names by repository and number
ActiveIssueId(a) ==
    CHOOSE id \in IssueIds :
        \E r \in 1..Len(Repositories) :
            /\ Repositories[r].owner = a.repo_owner
            /\ Repositories[r].repo = a.repo_name
            /\ \E x \in Range(RemoteIssues[r]) : x.id = id /\ x.number = a.issue_number

\* the cycle recorded in cyc left all four pieces of state as it found them
CycleChangedNothing ==
    /\ active_issue = cyc.startActive
    /\ processed_issues = cyc.startProcessed
    /\ active_file = cyc.startActiveFile
    /\ processed_file = cyc.startProcessedFile

\* ------------------------------------------------------- claims

\* C1: no issue identifier ever has more than one accepted comment, over all
\* cycles, persist outcomes, crashes and restarts.
NoDuplicateRequests == \A i \in IssueIds : posted[i] <= 1

\* C2: a comment is accepted only when every earlier accepted request has
\* reached its expiry (posting time + cooldown).
SingleOutstandingRequest == [][posted' # posted => now >= last_expiry]_vars

\* C3: one execution of poll_repositories has at most one accepted comment.
AtMostOnePostPerCycle == cyc.posts <= 1

\* C4 as stated: a cycle that got past the pending check holds no ActiveRequest
\* when it queries the rate limit (an expired request was set to None).
ExpiredRequestCleared == pc = "rate" => active_issue = NoActive

\* C4 as amended: a cycle that starts with a stored request whose expiry has
\* passed does not wait but goes on to the rate-limit query, and it reaches
\* that query with the stored request untouched, in memory and on disk: only a
\* missing or an expired request lets a cycle through.
LazyExpiry ==
    /\ pc = "rate" =>
          /\ active_issue = cyc.startActive
          /\ active_file = cyc.startActiveFile
          /\ active_issue.tag = "Some" => active_issue.timeout <= cyc.startNow
    /\ (cyc.result # "none" /\ cyc.startActive.tag = "Some"
            /\ cyc.startActive.timeout <= cyc.startNow)
          => cyc.result # "waiting"

\* an expired request is still stored while the cycle queries the rate limit
LazyExpiryWitness ==
    /\ pc = "rate"
    /\ active_issue.tag = "Some"
    /\ active_issue.timeout <= cyc.startNow

\* C5: a cycle that starts with an unexpired request returns at once: no
\* rate-limit query, no issue-list call, no comment, and memory and both files
\* as they were.
PendingCycleIsNoOp ==
    (cyc.result # "none" /\ cyc.pending) =>
        /\ cyc.result = "waiting"
        /\ pc = "done"
        /\ cyc.rate = 0 /\ cyc.lists = 0 /\ cyc.attempts = 0 /\ cyc.posts = 0
        /\ CycleChangedNothing

\* a cycle has run and returned while the request of an earlier cycle is pending
PendingCycleWitness ==
    /\ cyc.result = "waiting"
    /\ cyc.pending
    /\ now < active_issue.timeout
    /\ processed_issues # {}

\* C6: the rate limit is queried at most once per cycle and before any
\* repository; a cycle told a headroom below the floor lists no repository,
\* posts nothing and changes neither memory nor the files.
SoftBackpressure ==
    /\ cyc.rate <= 1
    /\ (cyc.lists > 0 \/ cyc.attempts > 0 \/ pc \in {"scan", "post"}) =>
          (cyc.rate = 1 /\ cyc.headroom >= 50)
    /\ (cyc.headroom # -1 /\ cyc.headroom < 50) =>
          /\ cyc.result = "throttled"
          /\ pc = "done"
          /\ cyc.lists = 0 /\ cyc.attempts = 0 /\ cyc.posts = 0
          /\ CycleChangedNothing

\* a cycle was throttled at headroom 49 although its stored request had expired
SoftBackpressureWitness ==
    /\ cyc.result = "throttled"
    /\ cyc.headroom = 49
    /\ cyc.startActive.tag = "Some"
    /\ ~cyc.pending

\* C7: the issue a scan stands on for a comment, and every issue a comment was
\* attempted for, is outside the processed set the scan copied.
ProcessedNeverChosen ==
    /\ pc = "post" =>
          /\ processed = processed_issues
          /\ sorted_issues[issue_pos].id \notin processed
    /\ attempt.tag = "Some" => attempt.id \notin attempt.skip

\* in a later run, after the cooldown, a scan lists an issue of the loaded
\* processed set, passes over it and stands on a younger one
ProcessedNeverChosenWitness ==
    /\ pc = "post"
    /\ restarts >= 1
    /\ active_issue.tag = "Some" /\ active_issue.timeout <= now
    /\ \E j \in 1..(issue_pos - 1) :
          /\ sorted_issues[j].id \in processed
          /\ sorted_issues[j].id \in processed_file

\* C8: when a cycle ends with a comment accepted for issue X and both saves
\* done, the in-memory and the persisted ActiveRequest are the same record,
\* naming X's repository, number and URL, with expiry = posting time +
\* cooldown, and both processed sets hold X.
RecordedOnSuccess ==
    (pc = "done" /\ cyc.result = "posted") =>
        /\ attempt.tag = "Some" /\ attempt.ok
        /\ ~cyc.pending
        /\ active_issue.tag = "Some"
        /\ active_file = active_issue
        /\ active_issue.repo_owner = Repositories[attempt.repo].owner
        /\ active_issue.repo_name = Repositories[attempt.repo].repo
        /\ active_issue.issue_number = IssueById(attempt.id).number
        /\ active_issue.issue_url = IssueById(attempt.id).html_url
        /\ active_issue.requested_at = attempt.at
        /\ active_issue.timeout = attempt.at + Cooldown
        /\ attempt.id \in processed_issues
        /\ attempt.id \in processed_file

\* a cycle ended with the comment on issue 4 of the second repository recorded
RecordedOnSuccessWitness ==
    /\ pc = "done"
    /\ cyc.result = "posted"
    /\ cyc.posts = 1
    /\ attempt.id = 4
    /\ attempt.at > 0

\* C9: outside the window between the two saves of one recording, a persisted
\* ActiveRequest always has its issue identifier in the persisted ProcessedSet.
AtomicPersistPair ==
    (pc # "save_processed" /\ active_file.tag = "Some") =>
        ActiveIssueId(active_file) \in processed_file

\* C10: an identifier the ProcessedSet once held, in the memory of a started
\* run or in the persisted document, is still in it.
ProcessedSetMonotone ==
    /\ pc # "boot" => ever_mem \subseteq processed_issues
    /\ ever_file \subseteq processed_file

\* poll_repositories returned Err: only the rate-limit query is behind a `?`
CycleReturnsErr == cyc.result = "rate_err"

Ids(issues) == {issues[i].id : i \in 1..Len(issues)}

\* C11: when initialize has returned and before the first cycle, memory holds
\* what the State Store holds: the persisted ActiveRequest (Pending) or None
\* when there is none (Idle), and the persisted ProcessedSet.
StartupReconciled ==
    pc = "ready" => (active_issue = active_file /\ processed_issues = processed_file)

\* C12: no issue with an assignee or a non-empty assignee list, lacking a
\* required label, or carrying an excluded label is among the candidates the
\* filter returns, nor in the list the loop chooses from.
FilterCorrect ==
    f_pc \in {"filtered", "sorted", "chosen"} =>
        \A x \in Range(f_filtered) \cup Range(f_sorted) :
            /\ x.assignee = NoAssignee
            /\ x.assignees = << >>
            /\ Range(f_rule.labels) \subseteq Range(x.labels)
            /\ Range(f_rule.exclude_labels) \cap Range(x.labels) = {}

\* of a blocked, an assigned and a free issue the scan keeps and chooses the
\* free one
FilterCorrectWitness ==
    /\ f_pc = "chosen"
    /\ f_rule.labels = <<"help">>
    /\ f_rule.exclude_labels = <<"blocked">>
    /\ Ids(f_list) = {22, 23, 24}
    /\ Ids(f_sorted) = {22}
    /\ f_pos = 1

\* C13: the sorted list holds the candidates in non-decreasing creation time,
\* and the issue the loop first stands on is a candidate outside the processed
\* set with the least creation time among all such candidates; the loop runs
\* off the list only when there is none.
OldestFirst ==
    /\ f_pc \in {"sorted", "chosen"} =>
          /\ Len(f_sorted) = Len(f_filtered)
          /\ Range(f_sorted) = Range(f_filtered)
          /\ \A i, j \in 1..Len(f_sorted) :
                i < j => f_sorted[i].created_at <= f_sorted[j].created_at
    /\ f_pc = "chosen" =>
          LET open == {x \in Range(f_filtered) : x.id \notin f_done}
          IN IF open = {} THEN f_pos > Len(f_sorted)
             ELSE /\ f_pos \in 1..Len(f_sorted)
                  /\ f_sorted[f_pos] \in open
                  /\ \A y \in open : f_sorted[f_pos].created_at <= y.created_at

\* three candidates came newest first, the first of the sorted list is
\* processed, and the loop stands on the second, older than the third
OldestFirstWitness ==
    /\ f_pc = "chosen"
    /\ Len(f_sorted) = 3
    /\ f_filtered[1].created_at > f_filtered[3].created_at
    /\ f_sorted[1].id \in f_done
    /\ f_pos = 2
    /\ f_sorted[2].created_at < f_sorted[3].created_at

\* C14: a cycle in which a persist call failed ends with memory equal to what
\* a restart would load, and returns an error.
PersistFailureNotCommitted ==
    (pc = "done" /\ cyc.saveErrs > 0) =>
        /\ active_issue = active_file
        /\ processed_issues = processed_file
        /\ CycleReturnsErr

\* C15 as stated: a cycle makes at most one comment attempt per repository it
\* lists.
OneAttemptPerRepository == cyc.attempts <= cyc.lists

\* C15 as amended: within one repository scan every candidate is attempted at
\* most once, in creation order; after a failed comment the loop stands on the
\* next unprocessed candidate of the same repository, with none passed over;
\* the scan ends with its first accepted comment.
AttemptsWithinRepository ==
    /\ pc # "post" => cyc.tried = << >>
    /\ pc = "post" =>
          /\ \A i, j \in 1..Len(cyc.tried) : i # j => cyc.tried[i] # cyc.tried[j]
          /\ sorted_issues[issue_pos].id \notin Range(cyc.tried)
          /\ \A j \in 1..(issue_pos - 1) :
                \/ sorted_issues[j].id \in processed
                \/ sorted_issues[j].id \in Range(cyc.tried)
          /\ \A j \in 1..(issue_pos - 1) :
                sorted_issues[j].created_at <= sorted_issues[issue_pos].created_at
          /\ cyc.tried # << >> =>
                /\ attempt.tag = "Some"
                /\ ~attempt.ok
                /\ attempt.repo = repo_idx
                /\ attempt.id = cyc.tried[Len(cyc.tried)]
    /\ cyc.posts <= cyc.lists

\* the comment on the oldest candidate of the first repository failed and the
\* loop stands on the next candidate of the same repository
AttemptsWithinRepositoryWitness ==
    /\ pc = "post"
    /\ repo_idx = 1
    /\ cyc.lists = 1
    /\ cyc.tried = <<2>>
    /\ sorted_issues[issue_pos].id = 1

\* C16: the step in which a comment call fails leaves the in-memory and the
\* persisted ActiveRequest and ProcessedSet as they were.
FailedPostChangesNothing ==
    [][(cyc'.attempts = cyc.attempts + 1 /\ cyc'.posts = cyc.posts) =>
          UNCHANGED <<active_issue, processed_issues, active_file, processed_file>>
      ]_allvars

\* a comment on an issue failed while an expired request is stored: the request
\* is as the cycle found it and the issue is not in the processed set
FailedPostWitness ==
    /\ attempt.tag = "Some"
    /\ ~attempt.ok
    /\ cyc.posts = 0
    /\ attempt.id \notin processed_issues
    /\ attempt.id \notin processed_file
    /\ active_issue.tag = "Some"
    /\ CycleChangedNothing

\* C17: repositories are listed in configured order, each once, whatever the
\* earlier list calls returned; a cycle in which a list call failed still ends
\* with Ok, and a cycle that ends without a post has listed every repository.
ListFailureNonFatal ==
    /\ pc = "scan" => cyc.lists = repo_idx - 1
    /\ pc = "post" => cyc.lists = repo_idx
    /\ (pc = "done" /\ cyc.listErrs > 0) =>
          (cyc.result \in {"exhausted", "posted"} /\ ~CycleReturnsErr)
    /\ cyc.result = "exhausted" => cyc.lists = Len(Repositories)

\* the list call of the first repository failed and the cycle ended with a
\* comment recorded for the second
ListFailureWitness ==
    /\ pc = "done"
    /\ cyc.listErrs = 1
    /\ cyc.lists = 2
    /\ cyc.result = "posted"
    /\ attempt.repo = 2

\* C18: with a title pattern that compiles, the candidates are those of the
\* same rule without pattern whose title matches; with a pattern that does not
\* compile, they are exactly those of the same rule without pattern.
TitlePatternStep ==
    (f_pc \in {"filtered", "sorted", "chosen"} /\ f_rule.title_regex.tag = "Some") =>
        LET plain == FilterIssues(f_list, [f_rule EXCEPT !.title_regex = NoRegex])
        IN IF f_rule.title_regex.valid
           THEN /\ \A x \in Range(f_filtered) : x.title \in f_rule.title_regex.matches
                /\ Range(f_filtered) =
                      {x \in Range(plain) : x.title \in f_rule.title_regex.matches}
           ELSE f_filtered = plain

\* a pattern that does not compile: an issue passes, another is rejected for
\* its labels
TitlePatternWitness ==
    /\ f_pc = "filtered"
    /\ f_rule.title_regex.tag = "Some"
    /\ ~f_rule.title_regex.valid
    /\ f_filtered # << >>
    /\ Len(f_filtered) < Len(f_list)

\* C19: within one run no issue identifier has two accepted comments.
OncePerRun == \A i \in IssueIds : run_posts[i] <= 1

\* issue 2 got its comment earlier in this run, nothing of it reached the
\* files, and a later scan lists it again, passes over it and stands on issue 1
OncePerRunWitness ==
    /\ pc = "post"
    /\ run_posts[2] = 1
    /\ processed_file = {}
    /\ active_file = NoActive
    /\ issue_pos = 2
    /\ sorted_issues[1].id = 2
    /\ sorted_issues[2].id = 1

\* C20: once the persisted ActiveRequest is Some (it is written from an
\* in-memory Some), the in-memory ActiveRequest of every started run is Some,
\* in the run that wrote it and after any restart.
RequestStaysAfterRestart ==
    (pc # "boot" /\ active_file.tag = "Some") => active_issue.tag = "Some"

\* C21: a cycle whose rate-limit query failed returns Err having made no list
\* call and no comment attempt, with the in-memory and persisted ActiveRequest
\* and ProcessedSet as the cycle found them; the step that follows takes the
\* loop of Bot::start back to its tick, changing none of the four.
RateErrorAbortsCycle ==
    [][(pc = "done" /\ cyc.rate = 1 /\ cyc.headroom = -1) =>
          /\ CycleReturnsErr
          /\ cyc.lists = 0
          /\ cyc.attempts = 0
          /\ cyc.posts = 0
          /\ CycleChangedNothing
          /\ pc' = "sleep"
          /\ UNCHANGED <<active_issue, processed_issues, active_file, processed_file>>
      ]_allvars

\* the rate-limit query failed in a cycle that found an expired request and a
\* processed issue stored, and a restart behind it
RateErrorWitness ==
    /\ pc = "done"
    /\ CycleReturnsErr
    /\ active_issue.tag = "Some"
    /\ active_file = active_issue
    /\ processed_file # {}
    /\ processed_issues = processed_file

\* C22: while a repository scan is still listing or attempting, no comment of
\* that scan has been accepted, and a scan that is saving has exactly its one
\* accepted comment behind it, whether or not the saves succeed; so a cycle
\* has at most as many accepted comments as there are configured repositories.
OnePostPerScan ==
    /\ cyc.posts <= Len(Repositories)
    /\ pc \in {"scan", "post"} => cyc.posts <= repo_idx - 1
    /\ pc \in {"save_active", "save_processed"} =>
          /\ cyc.posts <= repo_idx
          /\ attempt.tag = "Some"
          /\ attempt.ok
          /\ attempt.repo = repo_idx

\* a save failed after the accepted comment of the first repository and the
\* cycle ended with a second accepted comment, in the second repository
OnePostPerScanWitness ==
    /\ pc = "done"
    /\ cyc.posts = 2
    /\ cyc.saveErrs >= 1
    /\ cyc.lists = 2

====
